---------------------------- MODULE Spec2Model ----------------------------
(***************************************************************************)
(* web-search-zaimcp: the BigModel MCP "webSearchPrime" client adapter.    *)
(*                                                                         *)
(* Two entry points ship in the repository:                                *)
(*   bigmodelWebSearchPrime  src/src/tools/bigmodel-web-search-prime.ts    *)
(*   webSearchPrime          src/src/index.js  (CommonJS, re-exported by   *)
(*                           src/src/index.mjs)                            *)
(* Each has its own connection cache, payload unwrapper and normalizer.    *)
(*                                                                         *)
(* Spec       the search calls, the connection caches, the sessions, the   *)
(*            soft timeout (event-loop steps between awaits are atomic).   *)
(* SpecCache  the same calls, more of them, varying in the entry point and *)
(*            in reuseConnection only.                                     *)
(* SpecPipe   the pure pipeline blocks -> records -> items on bounded      *)
(*            inputs; SpecDecode, SpecWrap and SpecNorm are the pipeline   *)
(*            on blocks of every encoding, on blocks of every wrapper and  *)
(*            on records of every alias field.                             *)
(***************************************************************************)
EXTENDS Integers, Sequences, FiniteSets, TLC

VARIABLES env, now, clientCache, _clientCache, sessions, calls, pipe

vars == <<env, now, clientCache, _clientCache, sessions, calls, pipe>>

(***************************************************************************)
(* Bounds of the model.                                                    *)
(***************************************************************************)
MaxCalls == 2
MaxNow == 1
MaxBlocks == 2
MaxRecords == 2
MaxOptionsSet == 1
MaxCacheCalls == 3

(***************************************************************************)
(* JavaScript values.  One record shape for every value:                   *)
(*   t  the type tag: "undefined" "null" "boolean" "string" "number"       *)
(*      "array" "object"                                                   *)
(*   s  the characters of a string that is not JSON text                   *)
(*   j  <<v>> for the string that is the JSON text of v (JSON.stringify),  *)
(*      <<>> otherwise                                                     *)
(*   n  the number; 1 or 0 for the booleans true and false                 *)
(*   a  the elements of an array                                           *)
(*   o  the properties of an object, a sequence of [k, v]                  *)
(***************************************************************************)
JSValue(t, s, j, n, a, o) == [t |-> t, s |-> s, j |-> j, n |-> n, a |-> a, o |-> o]

Undefined == JSValue("undefined", "", <<>>, 0, <<>>, <<>>)

Null == JSValue("null", "", <<>>, 0, <<>>, <<>>)

Str(chars) == JSValue("string", chars, <<>>, 0, <<>>, <<>>)

Num(n) == JSValue("number", "", <<>>, n, <<>>, <<>>)

True == JSValue("boolean", "", <<>>, 1, <<>>, <<>>)

Arr(elems) == JSValue("array", "", <<>>, 0, elems, <<>>)

Obj(props) == JSValue("object", "", <<>>, 0, <<>>, props)

Prop(k, v) == [k |-> k, v |-> v]

\* JSON.stringify(v): the string holding the JSON text of v
JSONstringify(v) == JSValue("string", "", <<v>>, 0, <<>>, <<>>)

\* typeof v === 'string'
IsString(v) == v.t = "string"

\* typeof v === 'object' (null and arrays included)
TypeofObject(v) == v.t \in {"object", "array", "null"}

\* Array.isArray(v)
IsArray(v) == v.t = "array"

\* ToBoolean(v)
Truthy(v) ==
  CASE v.t \in {"undefined", "null"} -> FALSE
    [] v.t = "string" -> v.s # "" \/ v.j # <<>>
    [] v.t \in {"number", "boolean"} -> v.n # 0
    [] OTHER -> TRUE

\* a ?? b
Nullish(a, b) == IF a.t \in {"undefined", "null"} THEN b ELSE a

\* a || b
OrElse(a, b) == IF Truthy(a) THEN a ELSE b

\* a && b
AndAlso(a, b) == IF Truthy(a) THEN b ELSE a

RECURSIVE Lookup(_, _, _)
Lookup(props, k, i) ==
  IF i > Len(props) THEN Undefined
  ELSE IF props[i].k = k THEN props[i].v
  ELSE Lookup(props, k, i + 1)

\* v.k, v?.k on a value that is not null or undefined
Get(v, k) == IF v.t = "object" THEN Lookup(v.o, k, 1) ELSE Undefined

(***************************************************************************)
(* JSON.parse: a string parses iff it is the JSON text of some value;      *)
(* every other string (and the empty string) throws.                       *)
(***************************************************************************)
JSONparseThrows(text) == text.j = <<>>

JSONparse(text) == text.j[1]

\* the loop bound of parsePossiblyNestedJson / _parseNestedJson
ParseRounds == 2

\* a loop that decodes one layer only
ParseLoopOneRound(val, i) ==
  IF IsString(val) /\ ~JSONparseThrows(val) THEN JSONparse(val) ELSE val

RECURSIVE ParseLoop(_, _)
ParseLoop(val, i) ==
  IF i >= ParseRounds THEN val
  ELSE IF IsString(val)
       THEN IF JSONparseThrows(val) THEN val
            ELSE ParseLoop(JSONparse(val), i + 1)
       ELSE ParseLoop(val, i + 1)

parsePossiblyNestedJson(text) == ParseLoop(text, 0)

_parseNestedJson(text) == ParseLoop(text, 0)

\* a probe in the order data, results, items
WrappedArrayDataFirst(obj) ==
  LET pick(k) == IF IsArray(Get(obj, k)) THEN Get(obj, k) ELSE Null
  IN  OrElse(OrElse(OrElse(pick("data"), pick("results")), pick("items")), Null)

\* (Array.isArray(obj.items) && obj.items) || (... results) || (... data) || null
WrappedArray(obj) ==
  LET pick(k) == IF IsArray(Get(obj, k)) THEN Get(obj, k) ELSE Null
  IN  OrElse(OrElse(OrElse(pick("items"), pick("results")), pick("data")), Null)

\* what one parsed block text appends to out
BlockRecords(parsed) ==
  IF IsArray(parsed) THEN parsed.a
  ELSE IF Truthy(parsed) /\ TypeofObject(parsed)
       THEN IF Truthy(WrappedArray(parsed)) THEN WrappedArray(parsed).a ELSE <<>>
       ELSE <<>>

\* a test that looks at the text only
SkipBlockAnyType(b) ==
  \/ b.t \in {"undefined", "null"}
  \/ ~IsString(Get(b, "text"))

\* b?.type !== 'text' || typeof b.text !== 'string'  (the block is skipped)
SkipBlock(b) ==
  \/ b.t \in {"undefined", "null"}
  \/ Get(b, "type") # Str("text")
  \/ ~IsString(Get(b, "text"))

RECURSIVE parseItemsFromBlocks(_)
parseItemsFromBlocks(blocks) ==
  IF blocks = <<>> THEN <<>>
  ELSE LET b == Head(blocks)
           here == IF SkipBlock(b) THEN <<>>
                   ELSE BlockRecords(parsePossiblyNestedJson(Get(b, "text")))
       IN  here \o parseItemsFromBlocks(Tail(blocks))

\* !b || b.type !== 'text' || typeof b.text !== 'string'
_SkipBlock(b) ==
  \/ ~Truthy(b)
  \/ Get(b, "type") # Str("text")
  \/ ~IsString(Get(b, "text"))

RECURSIVE _extractArrayFromBlocks(_)
_extractArrayFromBlocks(blocks) ==
  IF blocks = <<>> THEN <<>>
  ELSE LET b == Head(blocks)
           here == IF _SkipBlock(b) THEN <<>>
                   ELSE BlockRecords(_parseNestedJson(Get(b, "text")))
       IN  here \o _extractArrayFromBlocks(Tail(blocks))

(***************************************************************************)
(* normalizeItems (TypeScript).                                            *)
(***************************************************************************)
\* o.link ?? o.url ?? o.href ?? (typeof o.sourceUrl === 'string' ? o.sourceUrl : undefined)
ResolveUrl(o) ==
  Nullish(Nullish(Nullish(Get(o, "link"), Get(o, "url")), Get(o, "href")),
          IF IsString(Get(o, "sourceUrl")) THEN Get(o, "sourceUrl") ELSE Undefined)

\* the record is skipped: !r || typeof r !== 'object', then !url || typeof url !== 'string'
SkipRecord(r) ==
  \/ ~Truthy(r)
  \/ ~TypeofObject(r)
  \/ ~Truthy(ResolveUrl(r))
  \/ ~IsString(ResolveUrl(r))

\* a membership test that never finds the url
SeenHasNever(seen, url) == FALSE

\* seen.has(url)
SeenHas(seen, url) == url \in seen

MakeItem(o) ==
  LET url == ResolveUrl(o)
  IN  [ title |-> Nullish(Nullish(Nullish(Get(o, "title"), Get(o, "name")),
                                  Get(o, "page_title")), url),
        url |-> url,
        summary |-> Nullish(Nullish(Get(o, "content"), Get(o, "summary")),
                            Get(o, "description")),
        icon |-> Nullish(Get(o, "icon"), Get(o, "favicon")),
        siteName |-> Nullish(Nullish(Get(o, "website"), Get(o, "site")),
                             Get(o, "siteName")),
        media |-> Nullish(Get(o, "media"), Undefined),
        publishedAt |-> Nullish(Nullish(Nullish(Get(o, "publish_date"),
                                                Get(o, "published_at")),
                                        Get(o, "date")), Undefined),
        refer |-> Nullish(Get(o, "refer"), Undefined),
        raw |-> o ]

\* a loop in which a later record with a seen url replaces the kept item
RECURSIVE NormalizeLoopLastWins(_, _, _, _)
NormalizeLoopLastWins(raw, i, seen, result) ==
  IF i > Len(raw) THEN result
  ELSE IF SkipRecord(raw[i]) THEN NormalizeLoopLastWins(raw, i + 1, seen, result)
  ELSE IF SeenHas(seen, ResolveUrl(raw[i]))
       THEN NormalizeLoopLastWins(raw, i + 1, seen,
              [k \in DOMAIN result |->
                 IF result[k].url = ResolveUrl(raw[i]) THEN MakeItem(raw[i])
                 ELSE result[k]])
  ELSE NormalizeLoopLastWins(raw, i + 1, seen \cup {ResolveUrl(raw[i])},
                             Append(result, MakeItem(raw[i])))

RECURSIVE NormalizeLoop(_, _, _, _)
NormalizeLoop(raw, i, seen, result) ==
  IF i > Len(raw) THEN result
  ELSE IF SkipRecord(raw[i]) THEN NormalizeLoop(raw, i + 1, seen, result)
  ELSE IF SeenHas(seen, ResolveUrl(raw[i])) THEN NormalizeLoop(raw, i + 1, seen, result)
  ELSE NormalizeLoop(raw, i + 1, seen \cup {ResolveUrl(raw[i])},
                     Append(result, MakeItem(raw[i])))

normalizeItems(raw) == NormalizeLoop(raw, 1, {}, <<>>)

(***************************************************************************)
(* _normalizeItems (CommonJS).                                             *)
(***************************************************************************)
\* r.link || r.url || r.href || r.sourceUrl
_ResolveLink(r) ==
  OrElse(OrElse(OrElse(Get(r, "link"), Get(r, "url")), Get(r, "href")),
         Get(r, "sourceUrl"))

\* !r || typeof r !== 'object', then !link || typeof link !== 'string'
_SkipRecord(r) ==
  \/ ~Truthy(r)
  \/ ~TypeofObject(r)
  \/ ~Truthy(_ResolveLink(r))
  \/ ~IsString(_ResolveLink(r))

\* seen.has(link)
_SeenHas(seen, link) == link \in seen

_MakeItem(r) ==
  LET link == _ResolveLink(r)
  IN  [ title |-> OrElse(OrElse(Get(r, "title"), Get(r, "name")), link),
        url |-> link,
        summary |-> OrElse(OrElse(Get(r, "content"), Get(r, "summary")),
                           Get(r, "description")),
        icon |-> OrElse(Get(r, "icon"), Get(r, "favicon")),
        siteName |-> OrElse(OrElse(Get(r, "website"), Get(r, "site")),
                            Get(r, "siteName")),
        media |-> Get(r, "media"),
        publishedAt |-> OrElse(OrElse(Get(r, "publish_date"), Get(r, "published_at")),
                               Get(r, "date")),
        refer |-> Get(r, "refer"),
        raw |-> r ]

RECURSIVE _NormalizeLoop(_, _, _, _)
_NormalizeLoop(rawArr, i, seen, out) ==
  IF i > Len(rawArr) THEN out
  ELSE IF _SkipRecord(rawArr[i]) THEN _NormalizeLoop(rawArr, i + 1, seen, out)
  ELSE IF _SeenHas(seen, _ResolveLink(rawArr[i])) THEN _NormalizeLoop(rawArr, i + 1, seen, out)
  ELSE _NormalizeLoop(rawArr, i + 1, seen \cup {_ResolveLink(rawArr[i])},
                      Append(out, _MakeItem(rawArr[i])))

_normalizeItems(rawArr) == _NormalizeLoop(rawArr, 1, {}, <<>>)

(***************************************************************************)
(* hashKey / _hashKey: h = (h << 5) - h + charCode, h |= 0 on 32 bits,     *)
(* then `k${Math.abs(h)}`.  A 32-bit word is kept as <<high, low>> halves  *)
(* of 16 bits, so that the arithmetic wraps as the int32 does.             *)
(***************************************************************************)
Half == 65536

\* (h << 5) - h + c = 31 * h + c  (mod 2^32)
HashStep(h, c) ==
  LET lo == h[2] * 31 + c
      hi == h[1] * 31 + (lo \div Half)
  IN  <<hi % Half, lo % Half>>

RECURSIVE HashLoop(_, _, _)
HashLoop(s, i, h) ==
  IF i > Len(s) THEN h ELSE HashLoop(s, i + 1, HashStep(h, s[i]))

\* Math.abs of the int32 whose bits are h; 2^31 for the bits of -2^31
AbsInt32(h) ==
  IF h[1] < Half \div 2 THEN h
  ELSE IF h[2] = 0 THEN <<Half - h[1], 0>>
  ELSE <<Half - 1 - h[1], Half - h[2]>>

hashKey(s) == AbsInt32(HashLoop(s, 1, <<0, 0>>))

_hashKey(s) == AbsInt32(HashLoop(s, 1, <<0, 0>>))

(***************************************************************************)
(* Inputs of the pure pipeline: response blocks built from a few records.  *)
(***************************************************************************)
RecLinkA == Obj(<<Prop("link", Str("http://a")), Prop("title", Str("T1"))>>)

RecUrlA == Obj(<<Prop("url", Str("http://a")), Prop("title", Str("T2")),
                 Prop("content", Str("S"))>>)

RecLinkB == Obj(<<Prop("link", Str("http://b"))>>)

RecNoUrl == Obj(<<Prop("title", Str("T1"))>>)

RecEmptyLink == Obj(<<Prop("link", Str("")), Prop("url", Str("http://b")),
                      Prop("name", Str("N"))>>)

Elems == {RecLinkA, RecUrlA, RecLinkB, RecNoUrl, RecEmptyLink, Str("http://a")}

Shapes == {"json", "json2", "items", "image"}

\* the encodings and the blocks that are not text
DecodeShapes == {"json", "json2", "json3", "bad", "bad2", "image", "nontext", "null"}

\* the wrappers around the array of records
WrapShapes ==
  {"json", "items", "results", "data", "itemsResults", "resultsData", "itemsText", "other"}

\* the array a wrapper holds under a key of lower priority
Decoy == Arr(<<RecNoUrl>>)

TextBlock(text) == Obj(<<Prop("type", Str("text")), Prop("text", text)>>)

\* a content block of the given shape around the array of records recs
MakeBlock(shape, recs) ==
  CASE shape = "json" -> TextBlock(JSONstringify(Arr(recs)))
    [] shape = "json2" -> TextBlock(JSONstringify(JSONstringify(Arr(recs))))
    [] shape = "json3" ->
         TextBlock(JSONstringify(JSONstringify(JSONstringify(Arr(recs)))))
    [] shape = "bad" -> TextBlock(Str("<html>"))
    [] shape = "bad2" -> TextBlock(JSONstringify(Str("<html>")))
    [] shape = "items" -> TextBlock(JSONstringify(Obj(<<Prop("items", Arr(recs))>>)))
    [] shape = "results" ->
         TextBlock(JSONstringify(Obj(<<Prop("results", Arr(recs))>>)))
    [] shape = "data" -> TextBlock(JSONstringify(Obj(<<Prop("data", Arr(recs))>>)))
    [] shape = "itemsResults" ->
         TextBlock(JSONstringify(Obj(<<Prop("results", Decoy),
                                       Prop("items", Arr(recs))>>)))
    [] shape = "resultsData" ->
         TextBlock(JSONstringify(Obj(<<Prop("data", Decoy),
                                       Prop("results", Arr(recs))>>)))
    [] shape = "itemsText" ->
         TextBlock(JSONstringify(Obj(<<Prop("items", Str("none")),
                                       Prop("results", Arr(recs))>>)))
    [] shape = "other" -> TextBlock(JSONstringify(Obj(<<Prop("hits", Arr(recs))>>)))
    [] shape = "image" ->
         Obj(<<Prop("type", Str("image")), Prop("text", JSONstringify(Arr(recs)))>>)
    [] shape = "nontext" -> TextBlock(Arr(recs))
    [] shape = "null" -> Null

RECURSIVE SumTo(_, _)
SumTo(sizes, i) == IF i = 0 THEN 0 ELSE sizes[i] + SumTo(sizes, i - 1)

\* the records block i is built around: recs[SumTo(sizes, i-1)+1 .. SumTo(sizes, i)]
PartsOf(sizes, recs) ==
  [i \in 1..Len(sizes) |-> SubSeq(recs, SumTo(sizes, i - 1) + 1, SumTo(sizes, i))]

BlocksOf(shapes, sizes, recs) ==
  [i \in 1..Len(sizes) |-> MakeBlock(shapes[i], PartsOf(sizes, recs)[i])]

\* the shapes whose block hands no records on
Silent == {"image", "nontext", "null", "json3", "bad", "bad2", "other"}

\* the records the blocks carry, in block order
RECURSIVE CarriedOf(_, _, _, _)
CarriedOf(shapes, sizes, recs, i) ==
  IF i > Len(sizes) THEN <<>>
  ELSE (IF shapes[i] \in Silent THEN <<>> ELSE PartsOf(sizes, recs)[i])
       \o CarriedOf(shapes, sizes, recs, i + 1)

PipeOff ==
  [stage |-> "off", blocks |-> <<>>, shapes |-> <<>>, parts |-> <<>>,
   carried |-> <<>>, records |-> <<>>, items |-> <<>>]

\* pipe is one of the bounded inputs: at most MaxBlocks blocks of the given
\* shapes, built around at most MaxRecords records in total
PipeInputOf(shapeSet, elemSet) ==
  \E nb \in 0..MaxBlocks :
    \E sizes \in {z \in [1..nb -> 0..MaxRecords] : SumTo(z, nb) <= MaxRecords} :
      \E shapes \in [1..nb -> shapeSet] :
        \E recs \in [1..SumTo(sizes, nb) -> elemSet] :
          pipe = [stage |-> "blocks", blocks |-> BlocksOf(shapes, sizes, recs),
                  shapes |-> shapes, parts |-> PartsOf(sizes, recs),
                  carried |-> CarriedOf(shapes, sizes, recs, 1),
                  records |-> <<>>, items |-> <<>>]

PipeInput == PipeInputOf(Shapes, Elems)

(***************************************************************************)
(* Credentials, endpoints, headers.  A text is a sequence of character     *)
(* codes; an optional value is <<>> (undefined) or <<value>>.              *)
(***************************************************************************)
KeyAa == <<65, 97>>

KeyBB == <<66, 66>>

KeyBlank == <<32>>

Whitespace == {9, 10, 11, 12, 13, 32}

\* s.trim() === ''
TrimIsEmpty(s) == \A i \in 1..Len(s) : s[i] \in Whitespace

DEFAULT_ENDPOINT == "https://open.bigmodel.cn/api/mcp/web_search_prime/mcp"

TOOL_NAME == "webSearchPrime"

\* a header value: literal text followed by the characters of a credential, if any
HeaderValue(lit, cred) == [lit |-> lit, cred |-> cred]

\* `Bearer ${apiKey}`
Bearer(apiKey) == HeaderValue("Bearer ", <<apiKey>>)

RECURSIVE HasKey(_, _)
HasKey(props, k) ==
  IF props = <<>> THEN FALSE ELSE Head(props).k = k \/ HasKey(Tail(props), k)

\* { ...base, ...extra }: a later property replaces the value of an earlier one
RECURSIVE Spread(_, _)
Spread(base, extra) ==
  IF extra = <<>> THEN base
  ELSE LET p == Head(extra)
           merged == IF HasKey(base, p.k)
                     THEN [i \in DOMAIN base |-> IF base[i].k = p.k THEN p ELSE base[i]]
                     ELSE Append(base, p)
       IN  Spread(merged, Tail(extra))

\* { Authorization: `Bearer ${apiKey}`, ...(headers ?? {}) }
MergedHeaders(apiKey, headers) ==
  Spread(<<Prop("Authorization", Bearer(apiKey))>>,
         IF headers = <<>> THEN <<>> ELSE headers[1])

\* { Authorization: `Bearer ${apiKey}` }
_Headers(apiKey, headers) == <<Prop("Authorization", Bearer(apiKey))>>

RECURSIVE HeaderOf(_, _)
HeaderOf(props, k) ==
  IF props = <<>> THEN HeaderValue("", <<>>)
  ELSE IF Head(props).k = k THEN Head(props).v ELSE HeaderOf(Tail(props), k)

(***************************************************************************)
(* The options a caller may pass.                                          *)
(***************************************************************************)
ApiKeyOptions == {<<>>, <<KeyBlank>>, <<KeyAa>>, <<KeyBB>>}

EnvValues == {<<>>, <<KeyAa>>}

EndpointOptions == {<<>>, <<"https://proxy.example/mcp">>}

HeaderOptions ==
  { <<>>,
    << <<Prop("X-Trace", HeaderValue("1", <<>>))>> >>,
    << <<Prop("Authorization", HeaderValue("Bearer ", <<KeyBB>>))>> >> }

ReuseOptions == {"undefined", "true", "false"}

TimeoutOptions == {<<>>, <<0>>, <<50>>}

DefaultOptions ==
  [ apiKey |-> <<>>, endpoint |-> <<>>, transportHeaders |-> <<>>,
    reuseConnection |-> "undefined", validateToolAvailability |-> FALSE,
    timeoutMs |-> <<>> ]

\* the number of options other than apiKey that the caller sets
OptionsSet(o) ==
  Cardinality({f \in {"endpoint", "transportHeaders", "reuseConnection",
                      "validateToolAvailability", "timeoutMs"} :
                 o[f] # DefaultOptions[f]})

\* the option bags: any apiKey, and at most MaxOptionsSet other options set
Options ==
  { o \in [ apiKey : ApiKeyOptions, endpoint : EndpointOptions,
            transportHeaders : HeaderOptions, reuseConnection : ReuseOptions,
            validateToolAvailability : BOOLEAN, timeoutMs : TimeoutOptions ] :
      OptionsSet(o) <= MaxOptionsSet }

\* params.count of WebSearchPrimeParams: absent, or a number
Params == {[count |-> <<>>], [count |-> <<5>>]}

\* the arguments of a call of bigmodelWebSearchPrime: params, and an option bag;
\* count is one of the at most MaxOptionsSet optional inputs set
SearchInputs ==
  { in \in [params : Params, options : Options] :
      OptionsSet(in.options) + (IF in.params.count = <<>> THEN 0 ELSE 1)
        <= MaxOptionsSet }

(***************************************************************************)
(* What the remote side may answer.                                        *)
(***************************************************************************)
ToolLists ==
  { Obj(<<Prop("tools", Arr(<<Obj(<<Prop("name", Str(TOOL_NAME))>>)>>))>>),
    Obj(<<Prop("tools", Arr(<<Obj(<<Prop("name", Str("otherTool"))>>)>>))>>),
    Obj(<<>>) }

ContentOne == Arr(<<MakeBlock("json", <<RecLinkA, RecUrlA>>)>>)

ContentTwo ==
  Arr(<<MakeBlock("json2", <<RecLinkB>>), MakeBlock("items", <<RecNoUrl, RecLinkB>>)>>)

ToolResults ==
  { Obj(<<Prop("content", ContentTwo)>>),
    Obj(<<Prop("isError", True), Prop("content", ContentOne)>>),
    Obj(<<>>) }

\* the error a rejected SDK promise carries
SdkError == Str("sdk error")

(***************************************************************************)
(* Errors and results of a search call.                                    *)
(***************************************************************************)
NoError == [name |-> "", code |-> "", message |-> "", interp |-> Undefined,
            details |-> Undefined]

\* new BigModelMCPError(message, code, details)
BigModelMCPError(message, code, details) ==
  [name |-> "BigModelMCPError", code |-> code, message |-> message,
   interp |-> Undefined, details |-> details]

\* new Error(`${message}${interp}`)
Error(message, interp) ==
  [name |-> "Error", code |-> "", message |-> message, interp |-> interp,
   details |-> Undefined]

\* a rejection of the SDK that reaches the caller as it is
Rethrown(e) ==
  [name |-> "SdkError", code |-> "", message |-> "", interp |-> Undefined, details |-> e]

\* meta is <<>> when the result has none
NoResult == [items |-> <<>>, rawBlocks |-> <<>>, meta |-> <<>>]

IdleCall ==
  [impl |-> "", pc |-> "idle", count |-> <<>>, apiKey |-> <<>>, endpoint |-> "",
   reused |-> FALSE,
   validate |-> FALSE, timeoutMs |-> <<>>, sess |-> 0, listed |-> FALSE,
   rpc |-> "none", timer |-> "none", err |-> NoError, result |-> NoResult]

Calls == 1..MaxCalls

(***************************************************************************)
(* The connection caches: a Map from key to the promise of a session,      *)
(* kept as a sequence of [k, v] with v the index of the session.           *)
(***************************************************************************)
\* `${endpoint}::${hashKey(apiKey)}`
CacheKey(endpoint, apiKey) == [prefix |-> endpoint, tail |-> hashKey(apiKey)]

\* options.reuseConnection === false ? `ephemeral::${Date.now()}`
\*                                   : `${endpoint}::${_hashKey(apiKey)}`
_CacheKey(reuseConnection, endpoint, apiKey, ms) ==
  IF reuseConnection = "false" THEN [prefix |-> "ephemeral", tail |-> <<ms>>]
  ELSE [prefix |-> endpoint, tail |-> _hashKey(apiKey)]

\* a lookup that never finds the key
CacheGetMiss(cache, key) == 0

\* cache.get(key): the session stored under key, 0 for undefined
RECURSIVE CacheGet(_, _)
CacheGet(cache, key) ==
  IF cache = <<>> THEN 0
  ELSE IF Head(cache).k = key THEN Head(cache).v
  ELSE CacheGet(Tail(cache), key)

\* cache.set(key, v)
CacheSet(cache, key, v) ==
  IF CacheGet(cache, key) # 0
  THEN [i \in DOMAIN cache |-> IF cache[i].k = key THEN Prop(key, v) ELSE cache[i]]
  ELSE Append(cache, Prop(key, v))

\* createClientPromise: the transport with its headers, client.connect(transport)
\* started; by is the call that started it
createClientPromise(endpoint, apiKey, headers, by) ==
  [impl |-> "ts", endpoint |-> endpoint, apiKey |-> apiKey,
   headers |-> MergedHeaders(apiKey, headers), state |-> "pending", by |-> by]

\* the async block of webSearchPrime that builds the transport and connects
_createClientPromise(endpoint, apiKey, headers, by) ==
  [impl |-> "js", endpoint |-> endpoint, apiKey |-> apiKey,
   headers |-> _Headers(apiKey, headers), state |-> "pending", by |-> by]

(***************************************************************************)
(* bigmodelWebSearchPrime (TypeScript), one action per stretch between     *)
(* two awaits.                                                             *)
(***************************************************************************)
\* !apiKey || apiKey.trim() === ''
MissingApiKey(apiKey) == apiKey = <<>> \/ apiKey[1] = <<>> \/ TrimIsEmpty(apiKey[1])

\* !timeoutMs || timeoutMs <= 0  (withSoftTimeout returns p itself)
NoDeadline(timeoutMs) == timeoutMs = <<>> \/ timeoutMs[1] = 0 \/ timeoutMs[1] <= 0

Fail(call, err) == [call EXCEPT !.pc = "failed", !.err = err]

\* client.callTool(...) is started and awaited through withSoftTimeout
InvokeRemote(call) ==
  [call EXCEPT !.pc = "call", !.rpc = "pending",
               !.timer = IF NoDeadline(call.timeoutMs) THEN "none" ELSE "armed"]

\* a promise that every settlement overwrites
SettleAgain(call, outcome) == outcome

\* the first settlement of the awaited promise decides; later ones are ignored
Settle(call, outcome) == IF call.pc = "call" THEN outcome ELSE call

\* lines 142-157: credential check, then the session is looked up or started
bigmodelWebSearchPrime(c, params, options) ==
  /\ calls[c].pc = "idle"
  /\ \A d \in 1..(c - 1) : calls[d].pc # "idle"
  /\ LET endpoint == IF options.endpoint = <<>> THEN DEFAULT_ENDPOINT
                     ELSE options.endpoint[1]
         apiKey == IF options.apiKey = <<>> THEN env ELSE options.apiKey
         reusedConnection == options.reuseConnection # "false"
         call == [IdleCall EXCEPT !.impl = "ts", !.count = params.count,
                                  !.apiKey = apiKey, !.endpoint = endpoint]
     IN  IF MissingApiKey(apiKey)
         THEN /\ calls' = [calls EXCEPT ![c] =
                   Fail(call, BigModelMCPError("Missing BigModel API key",
                                               "MISSING_API_KEY", Undefined))]
              /\ UNCHANGED <<sessions, clientCache>>
         ELSE LET key == CacheKey(endpoint, apiKey[1])
                  existing == CacheGet(clientCache, key)
                  fresh == ~reusedConnection \/ existing = 0
                  sess == IF fresh THEN Len(sessions) + 1 ELSE existing
              IN  /\ sessions' =
                       IF fresh
                       THEN Append(sessions,
                              createClientPromise(endpoint, apiKey[1],
                                                  options.transportHeaders, c))
                       ELSE sessions
                  /\ clientCache' =
                       IF reusedConnection /\ existing = 0
                       THEN CacheSet(clientCache, key, sess) ELSE clientCache
                  /\ calls' = [calls EXCEPT ![c] =
                       [call EXCEPT !.pc = "client", !.sess = sess,
                                    !.reused = reusedConnection,
                                    !.validate = options.validateToolAvailability,
                                    !.timeoutMs = options.timeoutMs]]
  /\ UNCHANGED <<env, now, _clientCache, pipe>>

\* a continuation that does not wait for the session promise
ClientReadyNoAwait(c) ==
  /\ calls[c].impl = "ts" /\ calls[c].pc = "client"
  /\ calls' = [calls EXCEPT ![c] =
       IF @.validate THEN [@ EXCEPT !.pc = "list", !.listed = TRUE] ELSE InvokeRemote(@)]
  /\ UNCHANGED <<env, now, clientCache, _clientCache, sessions, pipe>>

\* lines 155-194 after the session promise has settled
ClientReady(c) ==
  /\ calls[c].impl = "ts" /\ calls[c].pc = "client"
  /\ sessions[calls[c].sess].state # "pending"
  /\ calls' = [calls EXCEPT ![c] =
       IF sessions[calls[c].sess].state = "rejected"
       THEN Fail(@, BigModelMCPError("Failed to connect MCP client",
                                     "TRANSPORT_OR_CONNECT_ERROR", SdkError))
       ELSE IF @.validate THEN [@ EXCEPT !.pc = "list", !.listed = TRUE]
       ELSE InvokeRemote(@)]
  /\ UNCHANGED <<env, now, clientCache, _clientCache, sessions, pipe>>

\* a check that accepts every listing
ToolExistsAlways(toolList) == TRUE

\* toolList.tools.some(t => t?.name === TOOL_NAME), false when tools is no array
ToolExists(toolList) ==
  /\ IsArray(Get(toolList, "tools"))
  /\ \E i \in 1..Len(Get(toolList, "tools").a) :
       Get(Get(toolList, "tools").a[i], "name") = Str(TOOL_NAME)

\* lines 204-224: unwrap, normalize, build the result; of meta, tookMs (a
\* wall-clock difference) is left out
SearchOutput(call, result) ==
  LET rawBlocks == IF IsArray(Get(result, "content")) THEN Get(result, "content").a
                   ELSE <<>>
      items == normalizeItems(parseItemsFromBlocks(rawBlocks))
  IN  [items |-> items, rawBlocks |-> rawBlocks,
       meta |-> <<[endpoint |-> call.endpoint, toolName |-> TOOL_NAME,
                   requestedCount |-> call.count, returnedCount |-> Len(items),
                   reusedConnection |-> call.reused]>>]

\* a continuation that does not look at isError
AfterCallToolUnchecked(call, result) ==
  [call EXCEPT !.pc = "done", !.result = SearchOutput(call, result)]

\* a continuation that reports an application error under the transport code
AfterCallToolTransportCode(call, result) ==
  IF Truthy(Get(result, "isError"))
  THEN Fail(call, BigModelMCPError("returned isError=true",
                                   "TRANSPORT_OR_CONNECT_ERROR", result))
  ELSE [call EXCEPT !.pc = "done", !.result = SearchOutput(call, result)]

\* lines 196-224 once callTool has resolved with result
AfterCallTool(call, result) ==
  IF Truthy(Get(result, "isError"))
  THEN Fail(call, BigModelMCPError("returned isError=true", "MCP_TOOL_ERROR", result))
  ELSE [call EXCEPT !.pc = "done", !.result = SearchOutput(call, result)]

(***************************************************************************)
(* webSearchPrime (CommonJS), one action per stretch between two awaits.   *)
(***************************************************************************)
\* !apiKey
_MissingApiKey(apiKey) == apiKey = <<>> \/ apiKey[1] = <<>>

\* lines 100-110: credential check, then the SDK modules are imported
webSearchPrime(c, options) ==
  /\ calls[c].pc = "idle"
  /\ \A d \in 1..(c - 1) : calls[d].pc # "idle"
  /\ LET endpoint == IF options.endpoint = <<>> THEN DEFAULT_ENDPOINT
                     ELSE options.endpoint[1]
         apiKey == IF options.apiKey = <<>> \/ options.apiKey[1] = <<>> THEN env
                   ELSE options.apiKey
         call == [IdleCall EXCEPT !.impl = "js", !.apiKey = apiKey,
                                  !.endpoint = endpoint]
     IN  calls' = [calls EXCEPT ![c] =
           IF _MissingApiKey(apiKey)
           THEN Fail(call, Error("Missing BigModel API key", Undefined))
           ELSE [call EXCEPT !.pc = "import",
                             !.reused = options.reuseConnection # "false"]]
  /\ UNCHANGED <<env, now, clientCache, _clientCache, sessions, pipe>>

\* lines 112-128: the cache key, the cache lookup, the session started if absent
Imported(c) ==
  /\ calls[c].impl = "js" /\ calls[c].pc = "import"
  /\ LET call == calls[c]
         cacheKey == _CacheKey(IF call.reused THEN "undefined" ELSE "false",
                               call.endpoint, call.apiKey[1], now)
         clientPromise == CacheGet(_clientCache, cacheKey)
         sess == IF clientPromise = 0 THEN Len(sessions) + 1 ELSE clientPromise
     IN  /\ sessions' =
              IF clientPromise = 0
              THEN Append(sessions,
                     _createClientPromise(call.endpoint, call.apiKey[1], <<>>, c))
              ELSE sessions
         /\ _clientCache' =
              IF clientPromise = 0 THEN CacheSet(_clientCache, cacheKey, sess)
              ELSE _clientCache
         /\ calls' = [calls EXCEPT ![c] = [call EXCEPT !.pc = "client", !.sess = sess]]
  /\ UNCHANGED <<env, now, clientCache, pipe>>

\* lines 128-130 after the session promise has settled
_ClientReady(c) ==
  /\ calls[c].impl = "js" /\ calls[c].pc = "client"
  /\ sessions[calls[c].sess].state # "pending"
  /\ calls' = [calls EXCEPT ![c] =
       IF sessions[calls[c].sess].state = "rejected" THEN Fail(@, Rethrown(SdkError))
       ELSE [@ EXCEPT !.pc = "call", !.rpc = "pending"]]
  /\ UNCHANGED <<env, now, clientCache, _clientCache, sessions, pipe>>

\* lines 131-138 once callTool has resolved with result
_AfterCallTool(call, result) ==
  IF Truthy(AndAlso(result, Get(result, "isError")))
  THEN Fail(call, Error("MCP tool webSearchPrime error: ", JSONstringify(result)))
  ELSE LET rawBlocks == IF IsArray(Get(result, "content"))
                        THEN Get(result, "content").a ELSE <<>>
       IN  [call EXCEPT !.pc = "done",
                        !.result = [items |-> _normalizeItems(
                                                _extractArrayFromBlocks(rawBlocks)),
                                    rawBlocks |-> rawBlocks, meta |-> <<>>]]

(***************************************************************************)
(* Events of the environment: the SDK's promises settle, a timer fires,    *)
(* the clock advances.                                                     *)
(***************************************************************************)
\* client.connect(transport) resolves
ConnectResolves(s) ==
  /\ s \in DOMAIN sessions /\ sessions[s].state = "pending"
  /\ sessions' = [sessions EXCEPT ![s].state = "connected"]
  /\ UNCHANGED <<env, now, clientCache, _clientCache, calls, pipe>>

\* client.connect(transport) rejects
ConnectRejects(s) ==
  /\ s \in DOMAIN sessions /\ sessions[s].state = "pending"
  /\ sessions' = [sessions EXCEPT ![s].state = "rejected"]
  /\ UNCHANGED <<env, now, clientCache, _clientCache, calls, pipe>>

\* client.listTools() resolves: lines 168-178, then the invocation starts
ListToolsResolves(c, toolList) ==
  /\ calls[c].pc = "list"
  /\ calls' = [calls EXCEPT ![c] =
       IF ~ToolExists(toolList)
       THEN Fail(@, BigModelMCPError("Tool not found on MCP endpoint",
                                     "INVALID_RESPONSE", toolList))
       ELSE InvokeRemote(@)]
  /\ UNCHANGED <<env, now, clientCache, _clientCache, sessions, pipe>>

\* client.listTools() rejects: lines 161-167
ListToolsRejects(c) ==
  /\ calls[c].pc = "list"
  /\ calls' = [calls EXCEPT ![c] =
       Fail(@, BigModelMCPError("Failed to list tools on MCP server",
                                "TRANSPORT_OR_CONNECT_ERROR", SdkError))]
  /\ UNCHANGED <<env, now, clientCache, _clientCache, sessions, pipe>>

\* client.callTool(...) resolves; clearTimeout(to) and resolve(v) run, and the
\* call goes on if it is still waiting
CallToolResolves(c, result) ==
  /\ calls[c].rpc = "pending"
  /\ LET call == [calls[c] EXCEPT !.rpc = "settled",
                                  !.timer = IF @ = "armed" THEN "cleared" ELSE @]
     IN  calls' = [calls EXCEPT ![c] =
           IF call.impl = "ts" THEN Settle(call, AfterCallTool(call, result))
           ELSE _AfterCallTool(call, result)]
  /\ UNCHANGED <<env, now, clientCache, _clientCache, sessions, pipe>>

\* a handler that also evicts the session of the failed call from the caches
CallToolRejectsEvicting(c) ==
  /\ calls[c].rpc = "pending"
  /\ LET call == [calls[c] EXCEPT !.rpc = "settled",
                                  !.timer = IF @ = "armed" THEN "cleared" ELSE @]
     IN  calls' = [calls EXCEPT ![c] =
           IF call.impl = "ts"
           THEN Settle(call, Fail(call, BigModelMCPError("MCP callTool failed",
                                          "TRANSPORT_OR_CONNECT_ERROR", SdkError)))
           ELSE Fail(call, Rethrown(SdkError))]
  /\ clientCache' = SelectSeq(clientCache, LAMBDA e : e.v # calls[c].sess)
  /\ _clientCache' = SelectSeq(_clientCache, LAMBDA e : e.v # calls[c].sess)
  /\ UNCHANGED <<env, now, sessions, pipe>>

\* client.callTool(...) rejects; lines 186-192 wrap the error, clearTimeout(to)
\* and reject(e) run
CallToolRejects(c) ==
  /\ calls[c].rpc = "pending"
  /\ LET call == [calls[c] EXCEPT !.rpc = "settled",
                                  !.timer = IF @ = "armed" THEN "cleared" ELSE @]
     IN  calls' = [calls EXCEPT ![c] =
           IF call.impl = "ts"
           THEN Settle(call, Fail(call, BigModelMCPError("MCP callTool failed",
                                          "TRANSPORT_OR_CONNECT_ERROR", SdkError)))
           ELSE Fail(call, Rethrown(SdkError))]
  /\ UNCHANGED <<env, now, clientCache, _clientCache, sessions, pipe>>

\* the setTimeout callback of withSoftTimeout runs: lines 302-309
TimerFires(c) ==
  /\ calls[c].timer = "armed"
  /\ calls' = [calls EXCEPT ![c] =
       Settle([@ EXCEPT !.timer = "fired"],
              Fail([@ EXCEPT !.timer = "fired"],
                   BigModelMCPError("MCP call soft-timeout",
                                    "TRANSPORT_OR_CONNECT_ERROR", Undefined)))]
  /\ UNCHANGED <<env, now, clientCache, _clientCache, sessions, pipe>>

\* Date.now() advances
Tick ==
  /\ now < MaxNow
  /\ now' = now + 1
  /\ UNCHANGED <<env, clientCache, _clientCache, sessions, calls, pipe>>

Init ==
  /\ env \in EnvValues
  /\ now = 0
  /\ clientCache = <<>>
  /\ _clientCache = <<>>
  /\ sessions = <<>>
  /\ calls = [c \in Calls |-> IdleCall]
  /\ pipe = PipeOff

Next ==
  \/ \E c \in Calls, in \in SearchInputs :
       bigmodelWebSearchPrime(c, in.params, in.options)
  \/ \E c \in Calls : ClientReady(c)
  \/ \E c \in Calls, options \in Options : webSearchPrime(c, options)
  \/ \E c \in Calls : Imported(c)
  \/ \E c \in Calls : _ClientReady(c)
  \/ \E s \in 1..MaxCalls : ConnectResolves(s)
  \/ \E s \in 1..MaxCalls : ConnectRejects(s)
  \/ \E c \in Calls, toolList \in ToolLists : ListToolsResolves(c, toolList)
  \/ \E c \in Calls : ListToolsRejects(c)
  \/ \E c \in Calls, result \in ToolResults : CallToolResolves(c, result)
  \/ \E c \in Calls : CallToolRejects(c)
  \/ \E c \in Calls : TimerFires(c)
  \/ Tick

Spec == Init /\ [][Next]_vars

(***************************************************************************)
(* The connection caches under more calls: MaxCacheCalls calls with one    *)
(* credential that differ in the entry point and in reuseConnection only.  *)
(***************************************************************************)
CacheCalls == 1..MaxCacheCalls

CacheOptions ==
  { o \in Options :
      /\ o.apiKey = <<KeyAa>>
      /\ o.reuseConnection \in {"undefined", "false"}
      /\ OptionsSet(o) = (IF o.reuseConnection = "false" THEN 1 ELSE 0) }

InitCache ==
  /\ env = <<>>
  /\ now = 0
  /\ clientCache = <<>>
  /\ _clientCache = <<>>
  /\ sessions = <<>>
  /\ calls = [c \in CacheCalls |-> IdleCall]
  /\ pipe = PipeOff

NextCache ==
  \/ \E c \in CacheCalls, options \in CacheOptions :
       bigmodelWebSearchPrime(c, [count |-> <<>>], options)
  \/ \E c \in CacheCalls : ClientReady(c)
  \/ \E c \in CacheCalls, options \in CacheOptions : webSearchPrime(c, options)
  \/ \E c \in CacheCalls : Imported(c)
  \/ \E c \in CacheCalls : _ClientReady(c)
  \/ \E s \in CacheCalls : ConnectResolves(s)
  \/ \E s \in CacheCalls : ConnectRejects(s)
  \/ \E c \in CacheCalls : CallToolResolves(c, Obj(<<Prop("content", ContentTwo)>>))
  \/ \E c \in CacheCalls : CallToolRejects(c)
  \/ Tick

SpecCache == InitCache /\ [][NextCache]_vars

(***************************************************************************)
(* The pipeline steps of the two entry points.                             *)
(***************************************************************************)
\* const parsedItems = parseItemsFromBlocks(rawBlocks)
Unwrap ==
  /\ pipe.stage = "blocks"
  /\ pipe' = [pipe EXCEPT !.stage = "records",
                          !.records = parseItemsFromBlocks(pipe.blocks)]
  /\ UNCHANGED <<env, now, clientCache, _clientCache, sessions, calls>>

\* const items = normalizeItems(parsedItems)
Normalize ==
  /\ pipe.stage = "records"
  /\ pipe' = [pipe EXCEPT !.stage = "items", !.items = normalizeItems(pipe.records)]
  /\ UNCHANGED <<env, now, clientCache, _clientCache, sessions, calls>>

\* const parsed = _extractArrayFromBlocks(rawBlocks)
_Unwrap ==
  /\ pipe.stage = "blocks"
  /\ pipe' = [pipe EXCEPT !.stage = "_records",
                          !.records = _extractArrayFromBlocks(pipe.blocks)]
  /\ UNCHANGED <<env, now, clientCache, _clientCache, sessions, calls>>

\* const items = _normalizeItems(parsed)
_Normalize ==
  /\ pipe.stage = "_records"
  /\ pipe' = [pipe EXCEPT !.stage = "_items", !.items = _normalizeItems(pipe.records)]
  /\ UNCHANGED <<env, now, clientCache, _clientCache, sessions, calls>>

InitPipe ==
  /\ env = <<>>
  /\ now = 0
  /\ clientCache = <<>>
  /\ _clientCache = <<>>
  /\ sessions = <<>>
  /\ calls = [c \in Calls |-> IdleCall]
  /\ PipeInput

NextPipe == Unwrap \/ Normalize \/ _Unwrap \/ _Normalize

SpecPipe == InitPipe /\ [][NextPipe]_vars

\* the unwrapping on blocks of every encoding, and on blocks that are not text
UnwrapElems == {RecLinkA, RecLinkB}

InitDecode ==
  /\ env = <<>>
  /\ now = 0
  /\ clientCache = <<>>
  /\ _clientCache = <<>>
  /\ sessions = <<>>
  /\ calls = [c \in Calls |-> IdleCall]
  /\ PipeInputOf(DecodeShapes, UnwrapElems)

SpecDecode == InitDecode /\ [][NextPipe]_vars

\* the unwrapping on blocks of every wrapper
InitWrap ==
  /\ env = <<>>
  /\ now = 0
  /\ clientCache = <<>>
  /\ _clientCache = <<>>
  /\ sessions = <<>>
  /\ calls = [c \in Calls |-> IdleCall]
  /\ PipeInputOf(WrapShapes, UnwrapElems)

SpecWrap == InitWrap /\ [][NextPipe]_vars

\* the normalizing on records whose alias fields are present, absent, empty,
\* null or no text, and on records that are no objects
NormElems ==
  { RecLinkA, RecUrlA, RecEmptyLink,
    Obj(<<Prop("href", Str("http://h")), Prop("page_title", Str("P"))>>),
    Obj(<<Prop("sourceUrl", Str("http://s")), Prop("name", Str("N")),
          Prop("title", Null)>>),
    Obj(<<Prop("sourceUrl", Num(5))>>),
    Obj(<<Prop("link", Null), Prop("url", Str("http://b")), Prop("title", Str(""))>>),
    Obj(<<Prop("link", Num(5)), Prop("url", Str("http://b"))>>),
    Obj(<<Prop("sourceUrl", Str("http://s")), Prop("href", Str("http://h")),
          Prop("url", Str("http://b")), Prop("link", Str("http://a")),
          Prop("page_title", Str("P")), Prop("name", Str("N")),
          Prop("title", Str("T1"))>>),
    Obj(<<Prop("href", Num(0)), Prop("sourceUrl", Str("http://s"))>>),
    RecNoUrl, Null, Str("http://a"), Arr(<<Str("http://a")>>) }

InitNorm ==
  /\ env = <<>>
  /\ now = 0
  /\ clientCache = <<>>
  /\ _clientCache = <<>>
  /\ sessions = <<>>
  /\ calls = [c \in Calls |-> IdleCall]
  /\ PipeInputOf({"json"}, NormElems)

SpecNorm == InitNorm /\ [][NextPipe]_vars

(***************************************************************************)
(* Claims about the search calls (checked under Spec).                     *)
(***************************************************************************)
Started(c) == calls[c].impl # ""

Failed(c) == calls[c].pc = "failed"

\* the calls of c's entry point that ask for reuse with c's endpoint and
\* credential and have reached the cache
SameKeyCalls(c) ==
  {d \in Calls :
     /\ calls[d].reused /\ calls[d].sess # 0
     /\ calls[d].impl = calls[c].impl
     /\ calls[d].endpoint = calls[c].endpoint
     /\ calls[d].apiKey = calls[c].apiKey}

\* C1: the search calls of one entry point that ask for reuse with the same
\* endpoint and credential make exactly one connect attempt between them, in
\* every interleaving: the sessions they started and the sessions they wait for
\* are one and the same session.
C1_OneConnectPerKey ==
  \A c \in Calls :
    (calls[c].reused /\ calls[c].sess # 0) =>
      Cardinality({calls[d].sess : d \in SameKeyCalls(c)}
                    \cup {s \in DOMAIN sessions : sessions[s].by \in SameKeyCalls(c)}) = 1

\* two calls of the TypeScript entry point with the same key wait for the one
\* session, which is still being established
C1_Witness ==
  /\ calls[1].impl = "ts" /\ calls[2].impl = "ts"
  /\ calls[1].reused /\ calls[2].reused
  /\ calls[1].pc = "client" /\ calls[2].pc = "client"
  /\ calls[1].apiKey = calls[2].apiKey /\ calls[1].endpoint = calls[2].endpoint
  /\ calls[1].sess = 1 /\ calls[2].sess = 1
  /\ Len(sessions) = 1 /\ sessions[1].state = "pending"

\* the entries of both caches
CacheEntries == {clientCache[i] : i \in DOMAIN clientCache}
                  \cup {_clientCache[i] : i \in DOMAIN _clientCache}

\* C2: a call with reuse false makes its own fresh connect attempt, shared with
\* no other call, and its session is never stored in a cache.
C2_EphemeralIsolated ==
  \A c \in Calls :
    (Started(c) /\ ~calls[c].reused /\ calls[c].sess # 0) =>
      /\ sessions[calls[c].sess].by = c
      /\ \A d \in Calls \ {c} : calls[d].sess # calls[c].sess
      /\ \A e \in CacheEntries : e.v # calls[c].sess

\* the credential is absent or blank
BlankCredential(apiKey) == apiKey = <<>> \/ TrimIsEmpty(apiKey[1])

\* C3: a call whose credential is absent or blank fails with the missing
\* credential error before any network activity: no session, no listing, no
\* invocation.
C3_CredentialGate ==
  \A c \in Calls :
    (Started(c) /\ BlankCredential(calls[c].apiKey)) =>
      /\ Failed(c)
      /\ calls[c].err.message = "Missing BigModel API key"
      /\ calls[c].sess = 0 /\ ~calls[c].listed /\ calls[c].rpc = "none"
      /\ \A s \in DOMAIN sessions : sessions[s].by # c

\* the error kind of the specification that an error code stands for
KindOf(err) ==
  CASE err.code = "MISSING_API_KEY" -> "MissingCredential"
    [] err.code = "INVALID_RESPONSE" -> "ToolNotAvailable"
    [] err.code = "TRANSPORT_OR_CONNECT_ERROR" -> "RemoteInvocationFailed"
    [] err.code = "MCP_TOOL_ERROR" -> "RemoteApplicationError"
    [] OTHER -> "none"

\* the listing of call c comes back without the tool, or fails
ListingLacksTool(c) ==
  \/ ListToolsRejects(c)
  \/ \E toolList \in ToolLists : ~ToolExists(toolList) /\ ListToolsResolves(c, toolList)

\* C4 as stated: when the listing lacks the tool or the listing fails, the call
\* fails with ToolNotAvailable and the procedure is not invoked.
C4_AsStated ==
  [][\A c \in Calls :
       ListingLacksTool(c) =>
         /\ calls'[c].pc = "failed"
         /\ KindOf(calls'[c].err) = "ToolNotAvailable"
         /\ calls'[c].rpc = "none"]_vars

\* C4 (amended): in bigmodelWebSearchPrime with validateToolAvailability, a
\* listing without the tool fails the call with INVALID_RESPONSE carrying the
\* listing, a failed listing fails it with TRANSPORT_OR_CONNECT_ERROR, and in
\* both cases the procedure is never invoked; the procedure is invoked only
\* after a listing that has the tool.  webSearchPrime never lists tools.
C4_ValidateTool ==
  /\ [][\A c \in Calls :
          /\ ListToolsRejects(c) =>
               /\ calls'[c].pc = "failed" /\ calls'[c].rpc = "none"
               /\ calls'[c].err.code = "TRANSPORT_OR_CONNECT_ERROR"
               /\ calls'[c].err.message = "Failed to list tools on MCP server"
          /\ \A toolList \in ToolLists :
               ListToolsResolves(c, toolList) =>
                 IF \E i \in 1..Len(Get(toolList, "tools").a) :
                      Get(Get(toolList, "tools").a[i], "name") = Str(TOOL_NAME)
                 THEN calls'[c].pc = "call" /\ calls'[c].rpc = "pending"
                 ELSE /\ calls'[c].pc = "failed" /\ calls'[c].rpc = "none"
                      /\ calls'[c].err.code = "INVALID_RESPONSE"
                      /\ calls'[c].err.details = toolList]_vars
  /\ [](\A c \in Calls :
          /\ (calls[c].validate /\ calls[c].rpc # "none") => calls[c].listed
          /\ (Failed(c) /\ calls[c].err.code = "INVALID_RESPONSE") =>
               calls[c].rpc = "none"
          /\ calls[c].listed => (calls[c].impl = "ts" /\ calls[c].validate))

\* one call has failed on a listing without the tool, the other on a failed
\* listing; neither invoked the procedure
C4_Witness ==
  /\ Failed(1) /\ calls[1].err.code = "INVALID_RESPONSE" /\ calls[1].rpc = "none"
  /\ Failed(2) /\ calls[2].err.message = "Failed to list tools on MCP server"
  /\ calls[2].rpc = "none"

\* what made a failed call of bigmodelWebSearchPrime fail, read off the state
Cause(c) ==
  IF MissingApiKey(calls[c].apiKey) THEN "credential"
  ELSE IF calls[c].timer = "fired" THEN "timeout"
  ELSE IF calls[c].rpc = "settled" /\ Truthy(Get(calls[c].err.details, "isError"))
       THEN "application"
  ELSE IF calls[c].rpc = "none" /\ calls[c].listed /\ calls[c].err.details # SdkError
       THEN "tool"
  ELSE "transport"

Outcome(call) == <<call.pc, call.err, call.result>>

\* C6: with timeoutMs > 0 the call rejects with the timeout error when the timer
\* fires before the invocation settles, and the invocation stays outstanding; the
\* invocation may settle later and changes nothing; when the invocation settles
\* first the timer is cleared and the call goes on with that result or error;
\* with timeoutMs absent or <= 0 there is no timer; the outcome never changes
\* once settled.
C6_SoftTimeout ==
  /\ [][\A c \in Calls :
          /\ TimerFires(c) =>
               /\ calls[c].pc = "call" /\ calls[c].rpc = "pending"
               /\ calls'[c].pc = "failed" /\ calls'[c].rpc = "pending"
               /\ calls'[c].err.message = "MCP call soft-timeout"
          /\ calls[c].pc \in {"done", "failed"} =>
               Outcome(calls'[c]) = Outcome(calls[c])
          /\ (calls[c].impl = "ts" /\ calls[c].pc = "call" /\ calls'[c].rpc = "settled") =>
               /\ calls'[c].pc \in {"done", "failed"}
               /\ calls'[c].timer \in {"none", "cleared"}
               /\ calls'[c].err.message # "MCP call soft-timeout"]_vars
  /\ [](\A c \in Calls :
          /\ calls[c].timer = "armed" => (calls[c].pc = "call" /\ calls[c].rpc = "pending")
          /\ (calls[c].impl = "ts" /\ calls[c].rpc # "none") =>
               (calls[c].timer = "none" <=>
                  (calls[c].timeoutMs = <<>> \/ calls[c].timeoutMs[1] <= 0)))

\* the call timed out and the invocation settled afterwards
C6_Witness ==
  \E c \in Calls :
    /\ Failed(c) /\ calls[c].timer = "fired" /\ calls[c].rpc = "settled"
    /\ calls[c].err.message = "MCP call soft-timeout"
    /\ calls[c].result = NoResult

\* C7: when the response of the invocation carries isError, the call fails with
\* an error that carries the response, and returns no items, rawBlocks or meta.
C7_ApplicationError ==
  [][\A c \in Calls : \A result \in ToolResults :
       ( /\ CallToolResolves(c, result) /\ calls[c].pc = "call"
         /\ Get(result, "isError") = True ) =>
           /\ calls'[c].pc = "failed"
           /\ calls'[c].result = NoResult
           /\ IF calls[c].impl = "ts"
              THEN /\ calls'[c].err.code = "MCP_TOOL_ERROR"
                   /\ calls'[c].err.details = result
              ELSE calls'[c].err.interp = JSONstringify(result)]_vars

\* a call of each entry point has failed on a response with isError
C7_Witness ==
  /\ calls[1].impl = "ts" /\ Failed(1) /\ calls[1].err.code = "MCP_TOOL_ERROR"
  /\ Get(calls[1].err.details, "isError") = True /\ calls[1].result = NoResult
  /\ calls[2].impl = "js" /\ Failed(2) /\ calls[2].err.interp # Undefined

\* C8: every session is established with the Authorization header
\* `Bearer <credential>` of the establishing call, whatever headers the caller
\* supplies.
C8_BearerHeader ==
  \A s \in DOMAIN sessions :
    HeaderOf(sessions[s].headers, "Authorization") = Bearer(sessions[s].apiKey)

\* C12: on a successful call of bigmodelWebSearchPrime, meta has returnedCount
\* equal to the number of items, requestedCount equal to params.count, the
\* endpoint used, the tool name webSearchPrime, and reusedConnection true when
\* the session of the call was established for an earlier call and false when it
\* was established for this call.
C12_Meta ==
  \A c \in Calls :
    (calls[c].impl = "ts" /\ calls[c].pc = "done") =>
      LET meta == calls[c].result.meta[1]
      IN  /\ meta.returnedCount = Len(calls[c].result.items)
          /\ meta.requestedCount = calls[c].count
          /\ meta.endpoint = calls[c].endpoint
          /\ meta.toolName = "webSearchPrime"
          /\ meta.reusedConnection = (sessions[calls[c].sess].by # c)

\* the position of a step in ValidateCredential, AcquireSession, ValidateTool,
\* InvokeRemote, and the end of the call
Rank(pc) ==
  CASE pc = "idle" -> 0
    [] pc = "import" -> 1
    [] pc = "client" -> 2
    [] pc = "list" -> 3
    [] pc = "call" -> 4
    [] pc \in {"done", "failed"} -> 5

\* the remote sub-calls of a call that are outstanding
Outstanding(c) ==
  (IF calls[c].pc = "client" /\ sessions[calls[c].sess].state = "pending" THEN 1 ELSE 0)
    + (IF calls[c].pc = "list" THEN 1 ELSE 0)
    + (IF calls[c].rpc = "pending" THEN 1 ELSE 0)

\* C14: a call goes through its steps in the order ValidateCredential,
\* AcquireSession, optional ValidateTool, InvokeRemote, CheckError, Unwrap,
\* Normalize, Done and never back; the procedure is invoked only once the session
\* is established and, with validateToolAvailability, the listing has succeeded;
\* at most one remote sub-call of a call is outstanding; a failed or finished
\* call takes no further step, and no sub-call is issued twice.
C14_StepOrder ==
  /\ [][\A c \in Calls :
          /\ calls'[c].pc # calls[c].pc => Rank(calls'[c].pc) > Rank(calls[c].pc)
          /\ calls[c].pc \in {"done", "failed"} =>
               /\ Outcome(calls'[c]) = Outcome(calls[c])
               /\ calls'[c].sess = calls[c].sess
               /\ calls'[c].listed = calls[c].listed
               /\ calls'[c].rpc # calls[c].rpc => calls'[c].rpc = "settled"
          /\ calls[c].sess # 0 => calls'[c].sess = calls[c].sess
          /\ calls[c].rpc # "none" => calls'[c].rpc # "none"
          /\ calls[c].rpc = "settled" => calls'[c].rpc = "settled"]_vars
  /\ [](\A c \in Calls :
          /\ Outstanding(c) <= 1
          /\ calls[c].pc \in {"idle", "import"} => calls[c].sess = 0
          /\ calls[c].pc \in {"idle", "import", "client"} =>
               (~calls[c].listed /\ calls[c].rpc = "none")
          /\ calls[c].pc = "list" =>
               /\ sessions[calls[c].sess].state = "connected"
               /\ calls[c].validate /\ calls[c].rpc = "none"
          /\ calls[c].rpc # "none" =>
               /\ sessions[calls[c].sess].state = "connected"
               /\ calls[c].validate => calls[c].listed
          /\ calls[c].pc = "call" => calls[c].rpc = "pending"
          /\ calls[c].pc = "done" =>
               (calls[c].rpc = "settled" /\ calls[c].err = NoError)
          /\ calls[c].pc # "done" => calls[c].result = NoResult)

\* one call has gone through every step with the listing, the other has failed
\* at the listing and has invoked nothing
C14_Witness ==
  /\ calls[1].impl = "ts" /\ calls[1].pc = "done" /\ calls[1].listed
  /\ calls[1].rpc = "settled"
  /\ calls[2].impl = "ts" /\ Failed(2) /\ calls[2].listed /\ calls[2].rpc = "none"

(***************************************************************************)
(* Claims about the connection caches (checked under SpecCache and Spec).  *)
(***************************************************************************)
\* the cache of the entry point of a call
CacheOf(call) == IF call.impl = "ts" THEN clientCache ELSE _clientCache

\* the key under which a call of reuse true looks its session up
ReuseKey(call) ==
  IF call.impl = "ts" THEN CacheKey(call.endpoint, call.apiKey[1])
  ELSE _CacheKey("undefined", call.endpoint, call.apiKey[1], 0)

\* the error a caller sees when the establishment of its session has failed
ConnectError(call) ==
  IF call.impl = "ts"
  THEN BigModelMCPError("Failed to connect MCP client", "TRANSPORT_OR_CONNECT_ERROR",
                        SdkError)
  ELSE Rethrown(SdkError)

\* the session cached for the key of the call, when its establishment has failed
PoisonedEntry(call) ==
  LET entry == CacheGet(CacheOf(call), ReuseKey(call))
  IN  IF entry # 0 /\ sessions[entry].state = "rejected" THEN entry ELSE 0

\* C13: after an establishment under reuse true has failed for a key, the
\* callers waiting for it see the error, the failed entry stays in the cache
\* unchanged, every later call of reuse true for the key gets the failed session
\* and that same error without a new establishment attempt, and a later call of
\* reuse false for the same endpoint and credential makes a new establishment
\* attempt of its own.
C13_PoisonedKey ==
  /\ [][\A c \in DOMAIN calls :
          (calls[c].sess = 0 /\ calls'[c].sess # 0 /\ PoisonedEntry(calls'[c]) # 0) =>
            IF calls'[c].reused
            THEN sessions' = sessions /\ calls'[c].sess = PoisonedEntry(calls'[c])
            ELSE /\ Len(sessions') = Len(sessions) + 1
                 /\ calls'[c].sess = Len(sessions')
                 /\ sessions'[calls'[c].sess].state = "pending"]_vars
  /\ [][\A call \in {calls[c] : c \in DOMAIN calls} :
          (call.sess # 0 /\ call.reused /\ PoisonedEntry(call) # 0) =>
            /\ CacheGet(CacheOf(call), ReuseKey(call))' = PoisonedEntry(call)
            /\ sessions'[PoisonedEntry(call)] = sessions[PoisonedEntry(call)]]_vars
  /\ [](\A c \in DOMAIN calls :
          ( /\ calls[c].sess # 0 /\ calls[c].pc # "client"
            /\ sessions[calls[c].sess].state = "rejected" ) =>
              (Failed(c) /\ calls[c].err = ConnectError(calls[c])))

\* C19: the session handed to a call of reuse true was established with the
\* credential of that call, and two calls with the same endpoint and different
\* credentials never get the same session, also when the fingerprints of the
\* two credentials are equal.
C19_CredentialIsolation ==
  /\ \A c \in DOMAIN calls :
       (calls[c].reused /\ calls[c].sess # 0) =>
         sessions[calls[c].sess].apiKey = calls[c].apiKey[1]
  /\ \A c, d \in DOMAIN calls :
       ( /\ calls[c].sess # 0 /\ calls[d].sess # 0
         /\ calls[c].endpoint = calls[d].endpoint
         /\ calls[c].apiKey # calls[d].apiKey ) => calls[c].sess # calls[d].sess

\* a step in which call c fails after it has got its session, or in which the
\* result of its invocation arrives after its soft timeout
FailsAfterAcquisition(c) ==
  \/ ListToolsRejects(c)
  \/ \E toolList \in ToolLists : ~ToolExists(toolList) /\ ListToolsResolves(c, toolList)
  \/ CallToolRejects(c)
  \/ \E result \in ToolResults :
       Truthy(Get(result, "isError")) /\ CallToolResolves(c, result)
  \/ TimerFires(c)
  \/ \E result \in ToolResults : calls[c].timer = "fired" /\ CallToolResolves(c, result)

\* every entry of the cache is still there, under its key and with its session
Kept(cache, cacheAfter) ==
  \A i \in DOMAIN cache : i \in DOMAIN cacheAfter /\ cacheAfter[i] = cache[i]

\* C20: a failed listing, a missing tool, a failed invocation, an application
\* error and a soft timeout leave both caches, the sessions and the other calls
\* as they are, and so does a result that arrives after a soft timeout, which
\* also leaves the outcome of its call as it is; no step removes or replaces a
\* cache entry; a call of reuse true that finds an entry for its key gets the
\* session of the entry and makes no establishment attempt.
C20_FailuresKeepCache ==
  /\ [][\A c \in DOMAIN calls :
          FailsAfterAcquisition(c) =>
            /\ clientCache' = clientCache /\ _clientCache' = _clientCache
            /\ sessions' = sessions
            /\ \A d \in DOMAIN calls \ {c} : calls'[d] = calls[d]
            /\ calls[c].timer = "fired" => Outcome(calls'[c]) = Outcome(calls[c])]_vars
  /\ [][Kept(clientCache, clientCache') /\ Kept(_clientCache, _clientCache')]_vars
  /\ [][\A c \in DOMAIN calls :
          ( /\ calls[c].sess = 0 /\ calls'[c].sess # 0 /\ calls'[c].reused
            /\ CacheGet(CacheOf(calls'[c]), ReuseKey(calls'[c])) # 0 ) =>
              /\ calls'[c].sess = CacheGet(CacheOf(calls'[c]), ReuseKey(calls'[c]))
              /\ sessions' = sessions]_vars

\* the first call has timed out and the result of its invocation has arrived
\* afterwards; the second call, of the same key, has got the session of the first
C20_Witness ==
  /\ Failed(1) /\ calls[1].timer = "fired" /\ calls[1].rpc = "settled"
  /\ calls[1].reused /\ calls[2].reused
  /\ calls[2].pc = "call" /\ calls[2].sess = calls[1].sess
  /\ sessions[calls[2].sess].by = 1
  /\ Len(sessions) = 1 /\ Len(clientCache) = 1

(***************************************************************************)
(* Claims about the pure pipeline (checked under SpecPipe).                *)
(***************************************************************************)
\* the raw records of an item list, in order
Raws(items) == [k \in 1..Len(items) |-> items[k].raw]

RECURSIVE PickIndices(_, _, _)
PickIndices(recs, keep, i) ==
  IF i > Len(recs) THEN <<>>
  ELSE (IF i \in keep THEN <<recs[i]>> ELSE <<>>) \o PickIndices(recs, keep, i + 1)

\* reference: filter the records that resolve to a url, keep the first occurrence
\* of each url, in input order
RefFilterDedup(recs, Skip(_), Url(_)) ==
  PickIndices(recs,
              {i \in 1..Len(recs) :
                 /\ ~Skip(recs[i])
                 /\ \A j \in 1..(i - 1) : Skip(recs[j]) \/ Url(recs[j]) # Url(recs[i])},
              1)

NonEmptyText(v) == v.t = "string" /\ v # Str("")

\* the first record of recs that is kept and resolves to url
FirstWith(recs, url, Skip(_), Url(_)) ==
  recs[CHOOSE i \in 1..Len(recs) :
         /\ ~Skip(recs[i]) /\ Url(recs[i]) = url
         /\ \A j \in 1..(i - 1) : Skip(recs[j]) \/ Url(recs[j]) # url]

\* C10: in every normalization result each url is a non-empty text, no two
\* items share a url, and the item of a url is built from the first input record
\* with that url (its raw is that record).
C10_ItemsInvariant ==
  /\ pipe.stage \in {"items", "_items"} =>
       /\ \A k \in 1..Len(pipe.items) : NonEmptyText(pipe.items[k].url)
       /\ \A k, l \in 1..Len(pipe.items) :
            k # l => pipe.items[k].url # pipe.items[l].url
  /\ pipe.stage = "items" =>
       \A k \in 1..Len(pipe.items) :
         /\ pipe.items[k].raw =
              FirstWith(pipe.records, pipe.items[k].url, SkipRecord, ResolveUrl)
         /\ pipe.items[k] = MakeItem(pipe.items[k].raw)
  /\ pipe.stage = "_items" =>
       \A k \in 1..Len(pipe.items) :
         /\ pipe.items[k].raw =
              FirstWith(pipe.records, pipe.items[k].url, _SkipRecord, _ResolveLink)
         /\ pipe.items[k] = _MakeItem(pipe.items[k].raw)

\* two records with the same url and different other fields, one item kept
C10_Witness ==
  /\ pipe.stage = "items"
  /\ pipe.records = <<RecUrlA, RecLinkA>>
  /\ Len(pipe.items) = 1
  /\ pipe.items[1].raw = RecUrlA
  /\ pipe.items[1].title = Str("T2")

(***************************************************************************)
(* Claims about the unwrapping (checked under SpecDecode and SpecWrap).    *)
(***************************************************************************)
\* the other encoding of a block encoded once or twice
SwapEncoding(shape) ==
  IF shape = "json" THEN "json2" ELSE IF shape = "json2" THEN "json" ELSE shape

\* the blocks whose text does not decode to a value within two rounds
Undecoded == {"json3", "bad", "bad2"}

RECURSIVE Recoded(_, _, _)
Recoded(shapes, parts, i) ==
  IF i > Len(shapes) THEN <<>>
  ELSE (IF shapes[i] \in Undecoded THEN <<>>
        ELSE <<MakeBlock(SwapEncoding(shapes[i]), parts[i])>>)
       \o Recoded(shapes, parts, i + 1)

\* C11: a block whose text is the records encoded twice unwraps to the same
\* records as the block with the records encoded once, and a block whose text is
\* still a text after two rounds of decoding, or fails to decode at the first or
\* second round, contributes no records: the records of a block list are those of
\* the list with every such block removed and every once/twice encoding swapped,
\* and blocks encoded once or twice hand on exactly the records they hold.
C11_DoubleEncoding ==
  /\ pipe.stage = "records" =>
       pipe.records = parseItemsFromBlocks(Recoded(pipe.shapes, pipe.parts, 1))
  /\ pipe.stage = "_records" =>
       pipe.records = _extractArrayFromBlocks(Recoded(pipe.shapes, pipe.parts, 1))
  /\ pipe.stage \in {"records", "_records"} =>
       /\ (\A i \in DOMAIN pipe.shapes : pipe.shapes[i] \in {"json", "json2"}) =>
            pipe.records = pipe.carried
       /\ (\A i \in DOMAIN pipe.shapes : pipe.shapes[i] \in Undecoded) =>
            pipe.records = <<>>

\* a block encoded twice hands its record on, a block encoded three times does
\* not
C11_Witness ==
  /\ pipe.stage = "records"
  /\ pipe.shapes = <<"json2", "json3">>
  /\ pipe.parts = << <<RecLinkA>>, <<RecLinkB>> >>
  /\ pipe.records = <<RecLinkA>>

\* the records a block built as a wrapper (or as a bare array) is to hand on:
\* the array under items, else the array under results, else the array under
\* data, else nothing
WrapExpected(shape, part) ==
  CASE shape \in {"json", "items", "results", "data"} -> part
    [] shape \in {"itemsResults", "resultsData"} -> part
    [] shape = "itemsText" -> part
    [] shape = "other" -> <<>>

RECURSIVE WrapExpectedAll(_, _, _)
WrapExpectedAll(shapes, parts, i) ==
  IF i > Len(shapes) THEN <<>>
  ELSE WrapExpected(shapes[i], parts[i]) \o WrapExpectedAll(shapes, parts, i + 1)

\* C15: a block that decodes to an object appends the elements of the array under
\* the first of the keys items, results, data that holds an array (the arrays
\* under the later keys are not appended), a block that decodes to an object with
\* an array under none of them appends nothing, and a block that decodes to an
\* array appends its elements; the blocks append in block order.
C15_WrapperProbing ==
  pipe.stage \in {"records", "_records"} =>
    /\ pipe.records = WrapExpectedAll(pipe.shapes, pipe.parts, 1)
    /\ \A k \in 1..Len(pipe.records) : pipe.records[k] \notin {Decoy.a[1]}

\* a wrapper with arrays under items and results hands on the one under items,
\* a wrapper with an array under another key hands on nothing
C15_Witness ==
  /\ pipe.stage = "_records"
  /\ pipe.shapes = <<"itemsResults", "other">>
  /\ pipe.parts = << <<RecLinkA>>, <<RecLinkB>> >>
  /\ pipe.records = <<RecLinkA>>

\* the records a block is to hand on: those of a text block whose text decodes to
\* the array of records, none for every other block
DecodeExpected(shape, part) == IF shape \in {"json", "json2"} THEN part ELSE <<>>

RECURSIVE DecodeExpectedAll(_, _, _)
DecodeExpectedAll(shapes, parts, i) ==
  IF i > Len(shapes) THEN <<>>
  ELSE DecodeExpected(shapes[i], parts[i]) \o DecodeExpectedAll(shapes, parts, i + 1)

\* C16: the unwrapping of a list of blocks always returns: a block whose type is
\* not 'text', a block whose text is no string, a missing block and a block whose
\* text fails to decode at the first or second round contribute no records, and
\* the records of the other blocks of the list are returned, in block order.
C16_ExtractNeverRaises ==
  /\ pipe.stage = "blocks" => (ENABLED Unwrap /\ ENABLED _Unwrap)
  /\ pipe.stage \in {"records", "_records"} =>
       pipe.records = DecodeExpectedAll(pipe.shapes, pipe.parts, 1)

\* a block whose text fails to decode at the second round is followed by a
\* block whose record is returned
C16_Witness ==
  /\ pipe.stage = "records"
  /\ pipe.shapes = <<"bad2", "json">>
  /\ pipe.parts = << <<RecLinkA>>, <<RecLinkB>> >>
  /\ pipe.records = <<RecLinkB>>

(***************************************************************************)
(* Claims about the normalizing (checked under SpecNorm).                  *)
(***************************************************************************)
\* the first of the values that is a non-empty text, Undefined when none is
RECURSIVE FirstText(_)
FirstText(values) ==
  IF values = <<>> THEN Undefined
  ELSE IF NonEmptyText(Head(values)) THEN Head(values)
  ELSE FirstText(Tail(values))

\* the url of a record: the value of the first of link, url, href, sourceUrl
\* that yields a url
RefUrl(r) ==
  FirstText(<<Get(r, "link"), Get(r, "url"), Get(r, "href"), Get(r, "sourceUrl")>>)

\* the record is no object, or none of its aliases yields a url
RefSkip(r) == r.t # "object" \/ RefUrl(r) = Undefined

\* C17: the items are the records that are objects with an alias that yields a
\* url, each with the value of the first such alias in the order link, url, href,
\* sourceUrl as its url (first occurrence of a url kept); a record is dropped
\* exactly when it is no object or none of the aliases yields a url; the
\* normalizing returns for every record list.
C17_UrlResolution ==
  /\ pipe.stage = "records" => ENABLED Normalize
  /\ pipe.stage = "_records" => ENABLED _Normalize
  /\ pipe.stage \in {"items", "_items"} =>
       /\ Raws(pipe.items) = RefFilterDedup(pipe.records, RefSkip, RefUrl)
       /\ \A k \in 1..Len(pipe.items) : pipe.items[k].url = RefUrl(pipe.items[k].raw)

\* the first of the values that is present (neither undefined nor null)
RECURSIVE FirstPresent(_)
FirstPresent(values) ==
  IF values = <<>> THEN Undefined
  ELSE IF Head(values).t \notin {"undefined", "null"} THEN Head(values)
  ELSE FirstPresent(Tail(values))

\* C18: the title of every item is the value of the first present field of its
\* record in the order title, name, page_title, and the url of the item when
\* none of the three is present; every item has a title.
C18_TitleResolution ==
  pipe.stage \in {"items", "_items"} =>
    \A k \in 1..Len(pipe.items) :
      /\ pipe.items[k].title =
           FirstPresent(<<Get(pipe.items[k].raw, "title"), Get(pipe.items[k].raw, "name"),
                          Get(pipe.items[k].raw, "page_title"), pipe.items[k].url>>)
      /\ pipe.items[k].title \notin {Undefined, Null}

\* the fields of an item that the two entry points are to agree on
Public(item) ==
  [url |-> item.url, title |-> item.title, summary |-> item.summary,
   icon |-> item.icon, siteName |-> item.siteName, publishedAt |-> item.publishedAt,
   media |-> item.media, refer |-> item.refer]

PublicAll(items) == [k \in 1..Len(items) |-> Public(items[k])]

\* C21: for every list of blocks the items of _normalizeItems after
\* _extractArrayFromBlocks and the items of normalizeItems after
\* parseItemsFromBlocks have the same urls in the same order and the same title,
\* summary, icon, siteName, publishedAt, media and refer, also for records whose
\* alias fields are empty strings, null or no text.
C21_PipelinesAgree ==
  /\ pipe.stage = "items" =>
       PublicAll(pipe.items)
         = PublicAll(_normalizeItems(_extractArrayFromBlocks(pipe.blocks)))
  /\ pipe.stage = "_items" =>
       PublicAll(pipe.items)
         = PublicAll(normalizeItems(parseItemsFromBlocks(pipe.blocks)))

=============================================================================
